---- MODULE Spec2Model ----
(***************************************************************************)
(* A model of src/renderer/versions.ts: the known and local collections of *)
(* Electron versions kept in localStorage, the aggregated view of both,    *)
(* and the choice of the default version.                                  *)
(*                                                                         *)
(* A JavaScript string is a sequence of one-character strings, so that a   *)
(* string can be taken apart ("v1" is <<"v", "1">>, "" is <<>>).  The two   *)
(* values undefined and null are one-element sequences whose element is no *)
(* character.  An object is a function from its own keys to such values;   *)
(* an array is a sequence.                                                 *)
(***************************************************************************)
EXTENDS Integers, Sequences, FiniteSets, Bags, TLC

VARIABLES
    store,      \* window.localStorage: key -> null or the text stored
    pre,        \* the store as it was when the last call began
    op,         \* the exported function called last ("init" before any)
    arg,        \* the argument of that call (<<>> when it takes none)
    fault,      \* what the store did during that call: "none"; "read", every
                \* getItem raised; "write", every setItem raised; "write2",
                \* the first setItem succeeded and every later one raised
    err,        \* the error that call raised, NoError when it returned
    ret,        \* the value that call returned
    pending,    \* the asynchronous calls that are suspended: a bag of
                \* [name, at, response, err], `at` the await they wait at
    hist        \* history: the records pushed while a refresh was suspended,
                \* and the list of the last fetch that saved the known one

vars == <<store, pre, op, arg, fault, err, ret, pending, hist>>

----------------------------------------------------------------------------
(* Bounds of the model *)

\* addLocalVersion is called only while the local collection it loads has at
\* most this many records.
MaxLocal == 2

\* At most this many asynchronous calls are suspended at a time.
MaxCalls == 2

\* A version tag is made of at most this many pieces.
MaxPieces == 3

\* A list to migrate has at most this many entries.
MaxMigrate == 3

----------------------------------------------------------------------------
(* JavaScript values *)

Undefined == <<"undefined">>
Null      == <<"null">>

\* the strings of the model
Empty == <<>>
V1    == <<"1">>
V2    == <<"2">>
V3    == <<"3">>
Vv1   == <<"v", "1">>
Vg    == <<"g">>
NameA == <<"A">>
PathA == <<"/", "a">>
PathB == <<"/", "b">>
PathC == <<"/", "c">>

\* !!v for undefined, null and strings
Truthy(v) == v # Undefined /\ v # Null /\ v # Empty

\* a null entry of a parsed array
NullEntry == [null |-> Null]
IsNull(e) == "null" \in DOMAIN e

\* e.f for an object e
Get(e, f) == IF f \in DOMAIN e THEN e[f] ELSE Undefined

\* ElectronVersionSource and ElectronVersionState (../interfaces)
SourceRemote == <<"r", "e", "m", "o", "t", "e">>
SourceLocal  == <<"l", "o", "c", "a", "l">>
StateUnknown == <<"u", "n", "k", "n", "o", "w", "n">>
StateReady   == <<"r", "e", "a", "d", "y">>

\* keys of localStorage
VersionSlot == "version"
LocalKey    == "local-electron-versions"
KnownKey    == "known-electron-versions"
Slots       == {VersionSlot, LocalKey, KnownKey}

\* errors
NoError       == "none"
CorruptedData == "Corrupted version data"
ReadError     == "localStorage.getItem failed"
WriteError    == "localStorage.setItem failed"
TypeError     == "TypeError"
SyntaxError   == "SyntaxError"
FormatError   == "Electron versions in LS does not match expected format"

\* how a call completes: it returns val or raises e, leaving the store st
Return(st, val) == [err |-> NoError, val |-> val, st |-> st]
Throw(st, e)    == [err |-> e, val |-> <<>>, st |-> st]
Threw(c)        == c.err # NoError

----------------------------------------------------------------------------
(* Text in the store.  The text of a JSON slot is held by what it parses   *)
(* to: nothing (it is no JSON), a value that is no array, or an array.     *)

AbsentText  == [kind |-> "absent"]     \* getItem returns null
EmptyText   == [kind |-> "empty"]      \* the text ""
GarbageText == [kind |-> "garbage"]
NonListText == [kind |-> "nonlist"]
ListText(items) == [kind |-> "list", items |-> items]

\* `if (fromLs)`: null and "" are falsy
TruthyText(t) == t.kind \notin {"absent", "empty"}

\* JSON.stringify of an object: a key whose value is undefined is left out
StringifyObject(e) ==
    LET keep == {f \in DOMAIN e : e[f] # Undefined}
    IN  [f \in keep |-> e[f]]

\* JSON.stringify of an array of objects
JSONstringify(versions) ==
    ListText([i \in 1..Len(versions) |-> StringifyObject(versions[i])])

\* JSON.parse: raises SyntaxError on text that is no JSON
JSONparse(st, text) ==
    IF text.kind = "garbage" THEN Throw(st, SyntaxError)
    ELSE Return(st, text)

----------------------------------------------------------------------------
(* versions.ts *)

\* normalizeVersion (../utils/normalize-version): a leading "v" is stripped;
\* what is left is a version when it begins with a digit, else there is none
Digits == {"0", "1", "2", "3", "4", "5", "6", "7", "8", "9"}
normalizeVersion(raw) ==
    LET rest == IF Len(raw) > 0 /\ raw[1] = "v" THEN Tail(raw) ELSE raw
    IN  IF Len(rest) > 0 /\ rest[1] \in Digits THEN rest ELSE Null

\* (mutant) only the entry looked at first is tested
EveryHasVersionFirstOnly(input, i) ==
    IF i > Len(input) THEN "true"
    ELSE IF IsNull(input[i]) THEN "TypeError"
    ELSE IF ~Truthy(Get(input[i], "version")) THEN "false"
    ELSE "true"

\* input.every((entry) => !!entry.version), from entry i on: "true", "false",
\* or "TypeError" when it reaches a null entry before a falsy version
RECURSIVE EveryHasVersion(_, _)
EveryHasVersion(input, i) ==
    IF i > Len(input) THEN "true"
    ELSE IF IsNull(input[i]) THEN "TypeError"
    ELSE IF ~Truthy(Get(input[i], "version")) THEN "false"
    ELSE EveryHasVersion(input, i + 1)

\* isExpectedFormat: a value that is no array has no `every`
isExpectedFormat(input) ==
    IF input.kind # "list" THEN "TypeError"
    ELSE EveryHasVersion(input.items, 1)

\* ElectronReleaseChannel
ChannelStable      == <<"S", "t", "a", "b", "l", "e">>
ChannelBeta        == <<"B", "e", "t", "a">>
ChannelNightly     == <<"N", "i", "g", "h", "t", "l", "y">>
ChannelUnsupported == <<"U", "n", "s", "u", "p", "p", "o", "r", "t", "e", "d">>

\* the markers looked for in a tag
MarkBeta        == <<"b", "e", "t", "a">>
MarkNightly     == <<"n", "i", "g", "h", "t", "l", "y">>
MarkUnsupported == <<"u", "n", "s", "u", "p", "p", "o", "r", "t", "e", "d">>

\* tag.includes(marker)
Includes(tag, marker) ==
    \E i \in 0..(Len(tag) - Len(marker)) :
        SubSeq(tag, i + 1, i + Len(marker)) = marker

\* input.version || ''
TagOf(input) ==
    IF Truthy(Get(input, "version")) THEN Get(input, "version") ELSE Empty

\* (mutant) nightly is looked for before beta
getReleaseChannelNightlyFirst(input) ==
    LET tag == TagOf(input)
    IN  IF Includes(tag, MarkNightly) THEN ChannelNightly
        ELSE IF Includes(tag, MarkBeta) THEN ChannelBeta
        ELSE IF Includes(tag, MarkUnsupported) THEN ChannelUnsupported
        ELSE ChannelStable

\* getReleaseChannel
getReleaseChannel(input) ==
    LET tag == TagOf(input)
    IN  IF Includes(tag, MarkBeta) THEN ChannelBeta
        ELSE IF Includes(tag, MarkNightly) THEN ChannelNightly
        ELSE IF Includes(tag, MarkUnsupported) THEN ChannelUnsupported
        ELSE ChannelStable

\* (mutant) a legacy field that is there but empty counts
IsLegacyPresent(item) ==
    {"tag_name", "name", "url"} \subseteq DOMAIN item

\* the three legacy fields are all there
IsLegacy(item) ==
    /\ Truthy(Get(item, "tag_name"))
    /\ Truthy(Get(item, "name"))
    /\ Truthy(Get(item, "url"))

\* one legacy entry in the current shape
MigrateOne(item) ==
    [version |-> item.tag_name, name |-> item.name, localPath |-> item.url]

\* migrateVersions: null entries and entries lacking a legacy field are dropped
migrateVersions(input) ==
    LET KeepLegacy(item) == ~IsNull(item) /\ IsLegacy(item)
        kept == SelectSeq(input, KeepLegacy)
    IN  [i \in 1..Len(kept) |-> MigrateOne(kept[i])]

\* (mutant) no record is taken for a tagged one
isElectronVersionNever(input) == FALSE

\* isElectronVersion: the record carries a source
isElectronVersion(input) == Get(input, "source") # Undefined

\* (mutant) nothing is filtered out
KeepAll(v) == TRUE

\* the filter of saveLocalVersions
KeepForLocal(v) == isElectronVersion(v) => Get(v, "source") = SourceLocal

\* (mutant) a failing setItem is swallowed
saveVersionsSwallow(st, key, versions, flt) ==
    IF flt = "write" THEN Return(st, Undefined)
    ELSE Return([st EXCEPT ![key] = JSONstringify(versions)], Undefined)

\* saveVersions: stringify, then setItem
saveVersions(st, key, versions, flt) ==
    IF flt = "write" THEN Throw(st, WriteError)
    ELSE Return([st EXCEPT ![key] = JSONstringify(versions)], Undefined)

\* saveLocalVersions
saveLocalVersions(st, versions, flt) ==
    saveVersions(st, LocalKey, SelectSeq(versions, KeepForLocal), flt)

\* (mutant) the known list is saved under the key of the local one
saveKnownVersionsUnderLocalKey(st, versions, flt) ==
    saveVersions(st, LocalKey, versions, flt)

\* saveKnownVersions
saveKnownVersions(st, versions, flt) ==
    saveVersions(st, KnownKey, versions, flt)

\* (mutant) the known list is migrated as the local one is
MismatchNeverFatal(key) == FALSE

\* a stored list of the wrong format is migrated, unless it is the known one
MismatchIsFatal(key) == key = KnownKey

\* the try block of getVersions (lines 94-108)
TryParse(st, key, fromLs, flt) ==
    LET parsed == JSONparse(st, fromLs)
    IN  IF Threw(parsed) THEN parsed
        ELSE LET fmt == isExpectedFormat(parsed.val)
             IN  IF fmt = "TypeError" THEN Throw(st, TypeError)
                 ELSE IF fmt = "true" THEN Return(st, parsed.val.items)
                 ELSE IF MismatchIsFatal(key) THEN Throw(st, FormatError)
                 ELSE LET result == migrateVersions(parsed.val.items)
                          saved  == saveLocalVersions(st, result, flt)
                      IN  IF Threw(saved) THEN saved
                          ELSE Return(saved.st, result)

\* getVersions: getItem is called outside the try block
getVersions(st, key, fallback, flt) ==
    IF flt = "read" THEN Throw(st, ReadError)
    ELSE LET fromLs == st[key]
         IN  IF TruthyText(fromLs)
             THEN LET tried == TryParse(st, key, fromLs, flt)
                  IN  IF Threw(tried) THEN Return(tried.st, fallback)
                      ELSE tried
             ELSE Return(st, fallback)

\* ../../static/releases.json, the bundled snapshot
Snapshot == <<[version |-> V2], [version |-> V1]>>

\* (mutant) the known collection falls back to the empty list
getKnownVersionsEmptyFallback(st, flt) == getVersions(st, KnownKey, <<>>, flt)

\* getKnownVersions
getKnownVersions(st, flt) == getVersions(st, KnownKey, Snapshot, flt)

\* getLocalVersions
getLocalVersions(st, flt) == getVersions(st, LocalKey, <<>>, flt)

\* (mutant) { source, state, ...version }: the record's own tags win
TaggedKeepsOwn(version, source, state) ==
    [f \in DOMAIN version \cup {"source", "state"} |->
        IF f \in DOMAIN version THEN version[f]
        ELSE IF f = "source" THEN source
        ELSE state]

\* { ...version, source, state }
Tagged(version, source, state) ==
    [f \in DOMAIN version \cup {"source", "state"} |->
        IF f = "source" THEN source
        ELSE IF f = "state" THEN state
        ELSE version[f]]

TagAll(versions, source, state) ==
    [i \in 1..Len(versions) |-> Tagged(versions[i], source, state)]

\* getElectronVersions
getElectronVersions(st, flt) ==
    LET known == getKnownVersions(st, flt)
    IN  IF Threw(known) THEN known
        ELSE LET local == getLocalVersions(known.st, flt)
             IN  IF Threw(local) THEN local
                 ELSE Return(local.st,
                             TagAll(known.val, SourceRemote, StateUnknown)
                             \o TagAll(local.val, SourceLocal, StateReady))

\* (mutant) the records are compared by version
HasSameVersion(versions, input) ==
    \E i \in 1..Len(versions) :
        Get(versions[i], "version") = Get(input, "version")

\* versions.find((v) => v.localPath === input.localPath) finds a record
HasLocalPath(versions, input) ==
    \E i \in 1..Len(versions) :
        Get(versions[i], "localPath") = Get(input, "localPath")

\* the fault left for the rest of a call that took the store from st to now:
\* under "write2" the setItem that healed the local list was the first one,
\* so the next one raises
Later(flt, st, now) ==
    IF flt = "write2" /\ now # st THEN "write" ELSE flt

\* (mutant) the new record replaces the collection
addLocalVersionFresh(st, input, flt) ==
    LET loaded == getLocalVersions(st, flt)
    IN  IF Threw(loaded) THEN loaded
        ELSE LET versions == IF HasLocalPath(loaded.val, input)
                             THEN loaded.val
                             ELSE <<input>>
                 saved == saveLocalVersions(loaded.st, versions,
                                            Later(flt, st, loaded.st))
             IN  IF Threw(saved) THEN saved
                 ELSE Return(saved.st, versions)

\* (mutant) the list is returned as it was loaded
addLocalVersionReturnsLoaded(st, input, flt) ==
    LET loaded == getLocalVersions(st, flt)
    IN  IF Threw(loaded) THEN loaded
        ELSE LET versions == IF HasLocalPath(loaded.val, input)
                             THEN loaded.val
                             ELSE Append(loaded.val, input)
                 saved == saveLocalVersions(loaded.st, versions,
                                            Later(flt, st, loaded.st))
             IN  IF Threw(saved) THEN saved
                 ELSE Return(saved.st, loaded.val)

\* addLocalVersion
addLocalVersion(st, input, flt) ==
    LET loaded == getLocalVersions(st, flt)
    IN  IF Threw(loaded) THEN loaded
        ELSE LET versions == IF HasLocalPath(loaded.val, input)
                             THEN loaded.val
                             ELSE Append(loaded.val, input)
                 saved == saveLocalVersions(loaded.st, versions,
                                            Later(flt, st, loaded.st))
             IN  IF Threw(saved) THEN saved
                 ELSE Return(saved.st, versions)

\* what window.fetch and response.json() give: the request fails, the body is
\* no JSON, the body has no `versions`, or `versions` has these keys (in the
\* order of Object.keys)
NetworkFailure == [kind |-> "network"]
BadBody        == [kind |-> "badbody"]
NoVersions     == [kind |-> "noversions"]
Body(keys)     == [kind |-> "ok", keys |-> keys]

NetworkError == "window.fetch failed"

\* Object.keys(versions).map((version) => ({ version }))
Projected(keys) == [i \in 1..Len(keys) |-> [version |-> keys[i]]]

\* (mutant) a non-empty list is saved without being validated
ShouldPersistNonEmpty(output) == Len(output) > 0

\* output && output.length > 0 && isExpectedFormat(output)
ShouldPersist(output) ==
    Len(output) > 0 /\ isExpectedFormat(ListText(output)) = "true"

\* fetchVersions from its last await on: window.fetch rejected, or
\* response.json() settled; from there it runs to its end
fetchVersions(st, response, flt) ==
    IF response.kind = "network" THEN Throw(st, NetworkError)
    ELSE IF response.kind = "badbody" THEN Throw(st, SyntaxError)
    ELSE IF response.kind = "noversions" THEN Throw(st, TypeError)
    ELSE LET output == Projected(response.keys)
         IN  IF ShouldPersist(output)
             THEN LET saved == saveKnownVersions(st, output, flt)
                  IN  IF Threw(saved) THEN saved
                      ELSE Return(saved.st, output)
             ELSE Return(st, output)

\* (mutant) a failure of the fetch is not caught
getUpdatedElectronVersionsNoCatch(st, fetchErr, flt) ==
    IF fetchErr # NoError THEN Throw(st, fetchErr)
    ELSE getElectronVersions(st, flt)

\* getUpdatedElectronVersions from `await fetchVersions()` on: fetchErr is the
\* error fetchVersions raised, which the catch swallows
getUpdatedElectronVersions(st, fetchErr, flt) ==
    getElectronVersions(st, flt)

\* knownVersions.find(({ version }) => version === v) finds a record
HasVersion(knownVersions, v) ==
    \E i \in 1..Len(knownVersions) : Get(knownVersions[i], "version") = v

\* knownVersions[0] is there
HasFirst(knownVersions) == Len(knownVersions) > 0

\* (mutant) the remembered selection is never normalized
NormalizedOff(ls) == Null

\* ls && normalizeVersion(ls)
Normalized(ls) == IF Truthy(ls) THEN normalizeVersion(ls) ELSE ls

\* (mutant) the first version is taken whether or not a selection was remembered
SelfHealUnknownAlways(ls, knownVersions) == HasFirst(knownVersions)

\* ls && knownVersions[0]
SelfHealUnknown(ls, knownVersions) == Truthy(ls) /\ HasFirst(knownVersions)

\* knownVersions && knownVersions[0] && knownVersions[0].version
FirstIsVersion(knownVersions) ==
    HasFirst(knownVersions) /\ Truthy(Get(knownVersions[1], "version"))

\* getDefaultVersion
getDefaultVersion(st, knownVersions, flt) ==
    IF flt = "read" THEN Throw(st, ReadError)
    ELSE LET ls == st[VersionSlot]
             normalized == Normalized(ls)
         IN  IF Truthy(ls) /\ HasVersion(knownVersions, ls)
                 THEN Return(st, ls)
             ELSE IF Truthy(normalized) /\ HasVersion(knownVersions, normalized)
                 THEN Return(st, normalized)
             ELSE IF SelfHealUnknown(ls, knownVersions)
                 THEN Return(st, Get(knownVersions[1], "version"))
             ELSE IF FirstIsVersion(knownVersions)
                 THEN Return(st, knownVersions[1].version)
             ELSE Throw(st, CorruptedData)

----------------------------------------------------------------------------
(* The records and lists the calls are made with *)

R1       == [version |-> V1]
R2       == [version |-> V2]
R3       == [version |-> V3]
NoVer    == [name |-> NameA]
EmptyVer == [version |-> Empty, localPath |-> PathC]
Legacy1  == [tag_name |-> V1, name |-> NameA, url |-> PathA]
Legacy2  == [tag_name |-> V2, name |-> NameA, url |-> PathB]
Partial  == [tag_name |-> V2, url |-> PathB]
A1       == [version |-> V1, localPath |-> PathA]
A2       == [version |-> V2, localPath |-> PathA]
B1       == [version |-> V1, localPath |-> PathB]
NoPath   == [version |-> V2, localPath |-> Undefined]
RemoteC  == Tagged([version |-> V1, localPath |-> PathC], SourceRemote, StateUnknown)
LocalB   == Tagged([version |-> V2, localPath |-> PathB], SourceLocal, StateReady)

\* the remembered selection: none, "", "1", "v1", "g", "3"
Selections == {Null, Empty, V1, Vv1, Vg, V3}

\* the remembered selections of the specification of all calls
SelectionsFew == {Null, Vv1}

\* what the known slot may hold before the first call
KnownTexts ==
    {AbsentText, EmptyText, GarbageText, NonListText,
     ListText(<<>>), ListText(<<R1>>), ListText(<<R3, R1>>),
     ListText(<<Legacy1>>), ListText(<<R1, NullEntry>>)}

\* what the local slot may hold before the first call
LocalTexts ==
    {AbsentText, EmptyText, GarbageText, NonListText,
     ListText(<<>>), ListText(<<A1>>), ListText(<<Legacy1>>),
     ListText(<<Legacy2, NullEntry, Partial, Legacy1>>),
     ListText(<<A1, NullEntry>>), ListText(<<NullEntry, Legacy1>>)}

\* the arguments of addLocalVersion
AddInputs == {A1, A2, B1, NoPath, RemoteC, LocalB, EmptyVer}

\* the arguments of saveLocalVersions
SaveLocalInputs ==
    {<<>>, <<A1, RemoteC>>, <<RemoteC, B1, LocalB>>, <<Legacy1>>}

\* the arguments of saveKnownVersions
SaveKnownInputs == {<<>>, <<R1>>, <<R3, R2>>, <<NoVer>>, <<R1, LocalB>>}

\* the pieces version tags are made of: "1", the markers, and "bet"
Pieces == {V1, MarkBeta, MarkNightly, MarkUnsupported, <<"b", "e", "t">>}

\* the tags made of at most n pieces
RECURSIVE Tags(_)
Tags(n) ==
    IF n = 0 THEN {Empty}
    ELSE Tags(n - 1) \cup {t \o p : t \in Tags(n - 1), p \in Pieces}

\* the arguments of getReleaseChannel
ChannelInputs ==
    {[version |-> t] : t \in Tags(MaxPieces)}
        \cup {NoVer, [version |-> Undefined, name |-> NameA]}

\* a legacy entry with an empty name
LegacyNoName == [tag_name |-> V1, name |-> Empty, url |-> PathA]

\* the entries of a list to migrate
MigrateEntries == {Legacy1, Legacy2, Partial, LegacyNoName, NullEntry, A1}

\* the lists of at most n entries
RECURSIVE ListsOf(_, _)
ListsOf(entries, n) ==
    IF n = 0 THEN {<<>>}
    ELSE ListsOf(entries, n - 1)
            \cup {Append(l, e) : l \in ListsOf(entries, n - 1), e \in entries}

\* the arguments of migrateVersions
MigrateInputs == ListsOf(MigrateEntries, MaxMigrate)

\* what the registry may answer
Responses ==
    {NetworkFailure, BadBody, NoVersions,
     Body(<<>>), Body(<<V1>>), Body(<<V2, V3>>), Body(<<V1, Empty>>)}

\* the arguments of getDefaultVersion
KnownListInputs ==
    {<<>>, <<R2, R1>>, <<R3>>, <<EmptyVer, R1>>, <<NoVer, R1>>, <<R1, EmptyVer>>,
     TagAll(<<R2>>, SourceRemote, StateUnknown) \o TagAll(<<A1>>, SourceLocal, StateReady)}

\* the length of the list addLocalVersion loads
LocalLen(st) == Len(getLocalVersions(st, "none").val)

----------------------------------------------------------------------------
(* The state machine: one action per exported function *)

\* a store
Store(sel, lt, kt) ==
    [k \in Slots |-> IF k = VersionSlot THEN sel
                     ELSE IF k = LocalKey THEN lt ELSE kt]

\* no fetch has written the known collection
NoFetch == [wrote |-> FALSE, list |-> <<>>]

\* no asynchronous call is suspended
NonePending == EmptyBag

\* the number of suspended calls
Suspended == BagCardinality(pending)

\* a getUpdatedElectronVersions is suspended
RefreshSuspended ==
    \E call \in BagToSet(pending) : call.name = "getUpdatedElectronVersions"

\* the response a call has before window.fetch and response.json() settled
NoResponse == [kind |-> "none"]

\* a call that waits at `await window.fetch(...)`
AtFetch(name) ==
    [name |-> name, at |-> "fetch", response |-> NoResponse, err |-> NoError]

\* the bag with one more, and with one less, of this call
With(bag, call)    == bag (+) SetToBag({call})
Without(bag, call) == bag (-) SetToBag({call})

\* before the first call nothing was called
NothingCalled ==
    /\ pending = NonePending
    /\ hist = [added |-> {}, fetched |-> NoFetch]
    /\ pre = store
    /\ op = "init"
    /\ arg = <<>>
    /\ fault = "none"
    /\ err = NoError
    /\ ret = <<>>

Init ==
    /\ store \in {Store(sel, lt, kt) :
                     sel \in SelectionsFew, lt \in LocalTexts, kt \in KnownTexts}
    /\ NothingCalled

\* addLocalVersion pushed its input: the list it loaded had no record with
\* that localPath
Pushed(a, flt) == ~HasLocalPath(getLocalVersions(store, flt).val, a[1])

\* the history after the call `name` with argument a under fault flt completed
\* as c: a record is noted when addLocalVersion pushed and saved it while a
\* getUpdatedElectronVersions was suspended, a list when fetchVersions saved it
Noted(name, a, flt, c) ==
    [added |->
        IF /\ name = "addLocalVersion"
           /\ RefreshSuspended
           /\ ~Threw(c)
           /\ Pushed(a, flt)
        THEN hist.added \cup {a[1]} ELSE hist.added,
     fetched |->
        IF /\ name = "fetchVersions"
           /\ ~Threw(c)
           /\ ShouldPersist(c.val)
        THEN [wrote |-> TRUE, list |-> c.val]
        ELSE hist.fetched]

\* the call `name` with argument a under fault flt runs to its end as c
Settles(name, a, flt, c) ==
    /\ store' = c.st
    /\ pre' = store
    /\ op' = name
    /\ arg' = a
    /\ fault' = flt
    /\ err' = c.err
    /\ ret' = c.val
    /\ hist' = Noted(name, a, flt, c)

\* the synchronous call `name` with argument a under fault flt completed as c
Completes(name, a, flt, c) ==
    /\ Settles(name, a, flt, c)
    /\ pending' = pending

GetDefaultVersion ==
    \E knownVersions \in KnownListInputs, flt \in {"none", "read"} :
        Completes("getDefaultVersion", knownVersions, flt,
                  getDefaultVersion(store, knownVersions, flt))

GetKnownVersions ==
    \E flt \in {"none", "read"} :
        Completes("getKnownVersions", <<>>, flt, getKnownVersions(store, flt))

GetLocalVersions ==
    \E flt \in {"none", "read", "write"} :
        Completes("getLocalVersions", <<>>, flt, getLocalVersions(store, flt))

GetElectronVersions ==
    \E flt \in {"none", "read", "write"} :
        Completes("getElectronVersions", <<>>, flt,
                  getElectronVersions(store, flt))

AddLocalVersionOf(inputs, faults) ==
    /\ LocalLen(store) <= MaxLocal
    /\ \E input \in inputs, flt \in faults :
        Completes("addLocalVersion", <<input>>, flt,
                  addLocalVersion(store, input, flt))

AddLocalVersion ==
    AddLocalVersionOf(AddInputs, {"none", "read", "write", "write2"})

SaveLocalVersionsOf(inputs, faults) ==
    \E versions \in inputs, flt \in faults :
        Completes("saveLocalVersions", versions, flt,
                  saveLocalVersions(store, versions, flt))

SaveLocalVersions == SaveLocalVersionsOf(SaveLocalInputs, {"none", "write"})

SaveKnownVersionsOf(inputs, faults) ==
    \E versions \in inputs, flt \in faults :
        Completes("saveKnownVersions", versions, flt,
                  saveKnownVersions(store, versions, flt))

SaveKnownVersions == SaveKnownVersionsOf(SaveKnownInputs, {"none", "write"})

\* the default version of the aggregated list, as the application asks for it
\* at startup: getDefaultVersion(getElectronVersions())
defaultOfAll(st, flt) ==
    LET all == getElectronVersions(st, flt)
    IN  IF Threw(all) THEN all
        ELSE getDefaultVersion(all.st, all.val, flt)

DefaultOfAllOp == "getDefaultVersion(getElectronVersions())"

GetDefaultOfAll ==
    Completes(DefaultOfAllOp, <<>>, "none", defaultOfAll(store, "none"))

Next ==
    \/ GetDefaultVersion
    \/ GetKnownVersions
    \/ GetLocalVersions
    \/ GetElectronVersions
    \/ AddLocalVersion
    \/ SaveLocalVersions
    \/ SaveKnownVersions
    \/ GetDefaultOfAll

Spec == Init /\ [][Next]_vars

\* The choice of the default version, for every remembered selection
InitDefault ==
    /\ store \in {Store(sel, lt, kt) :
                     sel \in Selections, lt \in LocalTexts, kt \in KnownTexts}
    /\ NothingCalled

NextDefault ==
    \/ GetDefaultVersion
    \/ GetDefaultOfAll

SpecDefault == InitDefault /\ [][NextDefault]_vars

\* Sequences of addLocalVersion calls on a local collection that starts
\* absent or empty
InitAdd ==
    /\ store \in {Store(sel, lt, kt) :
                     sel \in SelectionsFew,
                     lt \in {AbsentText, ListText(<<>>)},
                     kt \in KnownTexts}
    /\ NothingCalled

NextAdd == AddLocalVersion

SpecAdd == InitAdd /\ [][NextAdd]_vars

\* Refreshes from the registry.  An asynchronous call returns to the event
\* loop at each of its awaits, where other calls run: at window.fetch, at
\* response.json() and, in getUpdatedElectronVersions, at fetchVersions().
\* Between two awaits it runs without interruption.
CallAsync(name) ==
    /\ Suspended < MaxCalls
    /\ pending' = With(pending, AtFetch(name))
    /\ hist' = IF RefreshSuspended THEN hist ELSE [hist EXCEPT !.added = {}]
    /\ UNCHANGED <<store, pre, op, arg, fault, err, ret>>

CallFetchVersions == CallAsync("fetchVersions")

CallGetUpdatedElectronVersions == CallAsync("getUpdatedElectronVersions")

\* what is suspended once the fetchVersions of this call completed as c on
\* this response: a getUpdatedElectronVersions waits for its continuation
AfterFetch(call, response, c) ==
    IF call.name = "getUpdatedElectronVersions"
    THEN With(Without(pending, call),
              [call EXCEPT !.at = "fetchVersions",
                           !.response = response, !.err = c.err])
    ELSE Without(pending, call)

\* window.fetch resolves: the call goes on to await response.json()
WindowFetchResolves ==
    \E call \in BagToSet(pending) :
        /\ call.at = "fetch"
        /\ pending' = With(Without(pending, call), [call EXCEPT !.at = "json"])
        /\ UNCHANGED <<store, pre, op, arg, fault, err, ret, hist>>

\* window.fetch rejects: fetchVersions raises
WindowFetchRejects ==
    \E call \in BagToSet(pending) :
        LET c == fetchVersions(store, NetworkFailure, "none")
        IN  /\ call.at = "fetch"
            /\ Settles("fetchVersions", NetworkFailure, "none", c)
            /\ pending' = AfterFetch(call, NetworkFailure, c)

\* response.json() settles: fetchVersions runs to its end
ResponseJsonSettlesOf(responses, faults) ==
    \E call \in BagToSet(pending) :
        \E response \in responses, flt \in faults :
            LET c == fetchVersions(store, response, flt)
            IN  /\ call.at = "json"
                /\ Settles("fetchVersions", response, flt, c)
                /\ pending' = AfterFetch(call, response, c)

ResponseJsonSettles ==
    ResponseJsonSettlesOf(Responses \ {NetworkFailure}, {"none", "write"})

\* the fetchVersions awaited by getUpdatedElectronVersions has settled: the
\* call goes on and runs to its end
GetUpdatedElectronVersionsResumes ==
    \E call \in BagToSet(pending) :
        /\ call.at = "fetchVersions"
        /\ Settles("getUpdatedElectronVersions", call.response, "none",
                   getUpdatedElectronVersions(store, call.err, "none"))
        /\ pending' = Without(pending, call)

\* what response.json() gives while a refresh is under way
RefreshResponses == {BadBody, NoVersions, Body(<<V1>>), Body(<<V2, V3>>)}

RefreshResponseJsonSettles == ResponseJsonSettlesOf(RefreshResponses, {"none"})

\* the records added while a refresh is under way
RefreshAddInputs == {B1, EmptyVer, RemoteC}

AddLocalVersionMeanwhile == AddLocalVersionOf(RefreshAddInputs, {"none"})

InitRefresh ==
    /\ store \in {Store(Null, lt, kt) :
                     lt \in {AbsentText, ListText(<<A1>>)},
                     kt \in {AbsentText, ListText(<<R1>>)}}
    /\ NothingCalled

NextRefresh ==
    \/ CallFetchVersions
    \/ CallGetUpdatedElectronVersions
    \/ WindowFetchResolves
    \/ WindowFetchRejects
    \/ RefreshResponseJsonSettles
    \/ GetUpdatedElectronVersionsResumes
    \/ AddLocalVersionMeanwhile

SpecRefresh == InitRefresh /\ [][NextRefresh]_vars

\* What gets persisted when the callers pass records without tags, or the
\* list getElectronVersions returned
RawAddInputs   == {A2, B1, EmptyVer}
RawLocalInputs == {<<>>, <<B1>>, <<Legacy1>>}
RawKnownInputs == {<<>>, <<R3, R2>>, <<NoVer>>}

AddLocalVersionRaw == AddLocalVersionOf(RawAddInputs, {"none"})

SaveLocalVersionsRaw == SaveLocalVersionsOf(RawLocalInputs, {"none"})

SaveKnownVersionsRaw == SaveKnownVersionsOf(RawKnownInputs, {"none"})

\* saveLocalVersions called with the list the last getElectronVersions gave
SaveReturnedAsLocal ==
    /\ op = "getElectronVersions"
    /\ err = NoError
    /\ Completes("saveLocalVersions", ret, "none",
                 saveLocalVersions(store, ret, "none"))

InitPersist ==
    /\ store \in {Store(Null, lt, kt) :
                     lt \in {AbsentText, ListText(<<A1>>), ListText(<<Legacy1>>)},
                     kt \in {AbsentText, ListText(<<R1>>)}}
    /\ NothingCalled

NextPersist ==
    \/ GetElectronVersions
    \/ AddLocalVersionRaw
    \/ SaveLocalVersionsRaw
    \/ SaveReturnedAsLocal
    \/ SaveKnownVersionsRaw
    \/ CallFetchVersions
    \/ WindowFetchResolves
    \/ WindowFetchRejects
    \/ ResponseJsonSettles

SpecPersist == InitPersist /\ [][NextPersist]_vars

\* The local collection under additions, loads and fetches, with no direct
\* save
AppendInputs == {A2, B1, EmptyVer, RemoteC}

AddLocalVersionNext ==
    AddLocalVersionOf(AppendInputs, {"none", "write", "write2"})

InitAppend ==
    /\ store \in {Store(Null, lt, kt) :
                     lt \in {AbsentText, ListText(<<A1>>)},
                     kt \in {AbsentText, ListText(<<R1>>)}}
    /\ NothingCalled

NextAppend ==
    \/ AddLocalVersionNext
    \/ GetLocalVersions
    \/ GetElectronVersions
    \/ CallFetchVersions
    \/ WindowFetchResolves
    \/ WindowFetchRejects
    \/ ResponseJsonSettles

SpecAppend == InitAppend /\ [][NextAppend]_vars

\* The functions that do not touch the store, applied to every input
InitPure ==
    /\ store = Store(Null, AbsentText, AbsentText)
    /\ NothingCalled

GetReleaseChannel ==
    \E input \in ChannelInputs :
        Completes("getReleaseChannel", <<input>>, "none",
                  Return(store, getReleaseChannel(input)))

SpecChannel == InitPure /\ [][GetReleaseChannel]_vars

MigrateVersions ==
    \E input \in MigrateInputs :
        Completes("migrateVersions", <<input>>, "none",
                  Return(store, migrateVersions(input)))

SpecMigrate == InitPure /\ [][MigrateVersions]_vars

----------------------------------------------------------------------------
(* What the claims speak of *)

\* the remembered selection the last call read
Remembered == pre[VersionSlot]

\* some record of the list has v as its version
SomeRecordHas(list, v) ==
    \E i \in DOMAIN list : "version" \in DOMAIN list[i] /\ list[i].version = v

\* every entry is an object with a truthy version
AllHaveVersion(items) ==
    \A i \in DOMAIN items :
        /\ ~IsNull(items[i])
        /\ "version" \in DOMAIN items[i]
        /\ Truthy(items[i].version)

\* the slot holds text that parses to a list
HoldsList(st, key) == st[key].kind = "list"

\* the list the slot holds, none when it holds no list
Persisted(st, key) == IF HoldsList(st, key) THEN st[key].items ELSE <<>>

\* the slot holds text that parses to a list every entry of which has a version
HoldsValidList(st, key) ==
    HoldsList(st, key) /\ AllHaveVersion(st[key].items)

----------------------------------------------------------------------------
(* C1 *)

\* C1 (as claimed): whatever the three slots hold, getDefaultVersion applied
\* to the list of getElectronVersions() returns a version string and never
\* raises an error.
C1_AlwaysAVersion ==
    op = DefaultOfAllOp => err = NoError /\ Truthy(ret)

\* C1 (amended): the list of getElectronVersions() is empty exactly when the
\* known slot holds a well-formed empty list and the local collection loads as
\* empty; getDefaultVersion raises "Corrupted version data" on that list, and
\* on every other it returns, without raising, the truthy version of one of
\* the list's records.
C1_VersionUnlessEmpty ==
    op = DefaultOfAllOp =>
        LET all == getElectronVersions(pre, "none").val
            nothing == /\ HoldsList(pre, KnownKey)
                       /\ pre[KnownKey].items = <<>>
                       /\ getLocalVersions(pre, "none").val = <<>>
        IN  /\ (all = <<>>) <=> nothing
            /\ nothing => err = CorruptedData
            /\ ~nothing => /\ err = NoError
                           /\ Truthy(ret)
                           /\ SomeRecordHas(all, ret)

\* C1 witness: known slot unparsable, local slot wrong-shaped, the selection
\* "v1" healed to "1" of the bundled snapshot
C1_Witness ==
    /\ op = DefaultOfAllOp
    /\ pre[KnownKey].kind = "garbage"
    /\ pre[LocalKey].kind = "nonlist"
    /\ Remembered = Vv1
    /\ err = NoError
    /\ ret = V1

----------------------------------------------------------------------------
(* C2 *)

\* what C2 says getDefaultVersion returns
C2Claimed(list, sel) ==
    IF sel # Null /\ SomeRecordHas(list, sel) THEN sel
    ELSE IF /\ sel # Null
            /\ normalizeVersion(sel) # Null
            /\ SomeRecordHas(list, normalizeVersion(sel))
         THEN normalizeVersion(sel)
    ELSE Get(list[1], "version")

\* C2 (as claimed): for every non-empty knownList and every remembered
\* selection getDefaultVersion returns the selection if a record has it, else
\* its normalized form if a record has that, else knownList[0].version; the
\* value returned is the version of a record of knownList.
C2_ResolutionOrder ==
    op = "getDefaultVersion" /\ fault = "none" /\ Len(arg) > 0 =>
        /\ err = NoError
        /\ ret = C2Claimed(arg, Remembered)
        /\ SomeRecordHas(arg, ret)

\* the same order, an absent or empty selection being no selection
C2Resolved(list, sel) ==
    IF Truthy(sel) /\ SomeRecordHas(list, sel) THEN sel
    ELSE IF /\ Truthy(sel)
            /\ normalizeVersion(sel) # Null
            /\ SomeRecordHas(list, normalizeVersion(sel))
         THEN normalizeVersion(sel)
    ELSE Get(list[1], "version")

\* C2 (amended): for every non-empty knownList whose first record has a truthy
\* version, and every remembered selection (an absent or empty one is no
\* selection), getDefaultVersion returns the selection if a record has it, else
\* its normalized form if a record has that, else knownList[0].version; the
\* value returned is the version of a record of knownList.
C2_ResolutionOrderFirstValid ==
    /\ op = "getDefaultVersion"
    /\ fault = "none"
    /\ Len(arg) > 0
    /\ Truthy(Get(arg[1], "version"))
    =>  /\ err = NoError
        /\ ret = C2Resolved(arg, Remembered)
        /\ SomeRecordHas(arg, ret)

\* C2 witness: the selection "v1" is in no record, its normalized form "1" is
\* in the second
C2_Witness ==
    /\ op = "getDefaultVersion"
    /\ arg = <<R2, R1>>
    /\ Remembered = Vv1
    /\ err = NoError
    /\ ret = V1

----------------------------------------------------------------------------
(* C3 *)

\* C3 (as claimed): getDefaultVersion raises "Corrupted version data" if and
\* only if knownList is empty and no selection is remembered; in every other
\* case it returns.
C3_FailsIffEmptyAndNoSelection ==
    op = "getDefaultVersion" /\ fault = "none" =>
        /\ err \in {NoError, CorruptedData}
        /\ err = CorruptedData <=> (Len(arg) = 0 /\ Remembered = Null)

\* C3 (amended): getDefaultVersion raises "Corrupted version data" if and only
\* if knownList is empty (whatever is remembered), or no non-empty selection is
\* remembered and the first record has no truthy version; in every other case
\* it returns.
C3_FailsIffNoFirstVersion ==
    op = "getDefaultVersion" /\ fault = "none" =>
        /\ err \in {NoError, CorruptedData}
        /\ err = CorruptedData <=>
              \/ Len(arg) = 0
              \/ ~Truthy(Remembered) /\ ~Truthy(Get(arg[1], "version"))

\* C3 witness: an empty knownList with a remembered selection raises
C3_Witness ==
    /\ op = "getDefaultVersion"
    /\ fault = "none"
    /\ arg = <<>>
    /\ Remembered = V1
    /\ err = CorruptedData

----------------------------------------------------------------------------
(* C4 *)

\* C4: getKnownVersions returns the stored list exactly when the known slot
\* holds text that parses to a list every entry of which has a truthy version;
\* otherwise (slot absent, unparsable, wrong-shaped or of the wrong format) it
\* returns the bundled snapshot, never a migrated list; and it writes to no
\* slot of the store.
C4_KnownStoredOrSnapshot ==
    op = "getKnownVersions" /\ fault = "none" =>
        /\ err = NoError
        /\ store = pre
        /\ HoldsValidList(pre, KnownKey) => ret = pre[KnownKey].items
        /\ ~HoldsValidList(pre, KnownKey) => ret = Snapshot

\* C4 witness: the known slot holds a legacy list, which is not migrated
C4_Witness ==
    /\ op = "getKnownVersions"
    /\ fault = "none"
    /\ pre[KnownKey] = ListText(<<Legacy1>>)
    /\ ret = Snapshot
    /\ store = pre

----------------------------------------------------------------------------
(* C5 *)

\* the validator returns false on the list: its first entry that is not an
\* object with a truthy version is an object, not null
ValidatorSaysNo(items) ==
    \E i \in DOMAIN items :
        /\ ~IsNull(items[i])
        /\ ~Truthy(Get(items[i], "version"))
        /\ AllHaveVersion(SubSeq(items, 1, i - 1))

\* the last call was a load of the local collection that the store served
LoadedLocal == op = "getLocalVersions" /\ fault = "none"

\* C5: when the local slot holds a parseable list in which not every entry
\* has a truthy version, getLocalVersions returns the migrated list and the
\* local slot then holds exactly that list.
C5_HealsEveryInvalidList ==
    LoadedLocal /\ HoldsList(pre, LocalKey) /\ ~HoldsValidList(pre, LocalKey) =>
        /\ ret = migrateVersions(pre[LocalKey].items)
        /\ store[LocalKey] = ListText(ret)

----------------------------------------------------------------------------
(* C6 *)

\* the last call was a load of one of the two collections
IsLoad == op \in {"getKnownVersions", "getLocalVersions"}

\* the key the load read, and its fallback
LoadKey      == IF op = "getKnownVersions" THEN KnownKey ELSE LocalKey
LoadFallback == IF op = "getKnownVersions" THEN Snapshot ELSE <<>>

\* C6: when the store raises on the read, the load does not propagate it and
\* returns the collection's fallback.
C6_ReadErrorBecomesFallback ==
    IsLoad /\ fault = "read" => err = NoError /\ ret = LoadFallback

----------------------------------------------------------------------------
(* C7 *)

\* the load of the local collection has a list to heal
LocalNeedsHeal(st) ==
    HoldsList(st, LocalKey) /\ ValidatorSaysNo(st[LocalKey].items)

\* the last call wrote, or tried to write, to the store
TriedToWrite ==
    \/ op \in {"saveKnownVersions", "saveLocalVersions", "addLocalVersion"}
    \/ op = "getLocalVersions" /\ LocalNeedsHeal(pre)

\* C7 (as claimed): whenever the store's write fails during saveKnownVersions,
\* saveLocalVersions, addLocalVersion or the self-heal write of
\* getLocalVersions, the exception reaches the caller.
C7_WriteErrorAlwaysPropagates ==
    TriedToWrite /\ fault = "write" => err = WriteError

\* the store as it was before the call, the local list healed
HealedBefore ==
    [pre EXCEPT ![LocalKey] = ListText(migrateVersions(pre[LocalKey].items))]

\* C7 (amended): a failing write raises to the caller of saveKnownVersions and
\* saveLocalVersions, the store being left as it was, and a failing final
\* write raises to the caller of addLocalVersion: the store is then as it was
\* if the self-heal wrote nothing, and holds the healed local list if the load
\* inside addLocalVersion healed the list before.  The self-heal write is
\* inside the try block: its failure is caught, and getLocalVersions returns
\* the empty fallback with the store unchanged.
C7_WriteErrorPropagatesFromSaves ==
    /\ op \in {"saveKnownVersions", "saveLocalVersions", "addLocalVersion"}
       /\ fault = "write"
          => err = WriteError /\ store = pre
    /\ op = "addLocalVersion" /\ fault = "write2" /\ LocalNeedsHeal(pre)
          => err = WriteError /\ store = HealedBefore
    /\ op = "addLocalVersion" /\ fault = "write2" /\ ~LocalNeedsHeal(pre)
          => err = NoError
    /\ op = "getLocalVersions" /\ fault = "write" /\ LocalNeedsHeal(pre)
          => err = NoError /\ ret = <<>> /\ store = pre

\* C7 witness: addLocalVersion on a list to heal: the heal's write succeeded,
\* the final save's failed and was raised, the healed list is what is stored
C7_Witness ==
    /\ op = "addLocalVersion"
    /\ fault = "write2"
    /\ pre[LocalKey] = ListText(<<Legacy1>>)
    /\ err = WriteError
    /\ store[LocalKey] = ListText(<<MigrateOne(Legacy1)>>)

----------------------------------------------------------------------------
(* C8 *)

\* the record carries no provenance tag, or the tag local
UntaggedOrLocal(v) ==
    \/ "source" \notin DOMAIN v
    \/ v.source = Undefined
    \/ v.source = SourceLocal

\* some record of the list is tagged remote
SomeRemote(list) ==
    \E i \in DOMAIN list :
        "source" \in DOMAIN list[i] /\ list[i].source = SourceRemote

\* C8: saveLocalVersions(list) stores under the local key exactly the
\* records of list that are tagged local or carry no tag, in their order, and
\* changes no other slot; after saveLocalVersions or addLocalVersion the local
\* slot holds no record tagged remote and the known slot is as it was.
C8_OnlyLocalRecordsSaved ==
    /\ op = "saveLocalVersions" /\ fault = "none" =>
          /\ err = NoError
          /\ store = [pre EXCEPT ![LocalKey] =
                         JSONstringify(SelectSeq(arg, UntaggedOrLocal))]
    /\ op \in {"saveLocalVersions", "addLocalVersion"} =>
          /\ store[KnownKey] = pre[KnownKey]
          /\ ~SomeRemote(Persisted(store, LocalKey))

\* C8 witness: a list with a remote record in front was saved without it
C8_Witness ==
    /\ op = "saveLocalVersions"
    /\ arg = <<RemoteC, B1, LocalB>>
    /\ err = NoError
    /\ store[LocalKey] = ListText(<<B1, LocalB>>)

----------------------------------------------------------------------------
(* C9 *)

\* what a load of the known collection returns
LoadOfKnown(st) ==
    IF HoldsValidList(st, KnownKey) THEN st[KnownKey].items ELSE Snapshot

\* what a load of the local collection returns; a list to heal is migrated if
\* the write of the healed list succeeds
LoadOfLocal(st, flt) ==
    IF HoldsValidList(st, LocalKey) THEN st[LocalKey].items
    ELSE IF LocalNeedsHeal(st) /\ flt = "none"
         THEN migrateVersions(st[LocalKey].items)
    ELSE <<>>

\* r is v with the two tags set, whatever tags v carried
IsTaggedCopy(r, v, source, state) ==
    /\ DOMAIN r = DOMAIN v \cup {"source", "state"}
    /\ r.source = source
    /\ r.state = state
    /\ \A f \in DOMAIN v \ {"source", "state"} : r[f] = v[f]

\* C9: getElectronVersions returns the records of the known collection, in
\* their order and each tagged remote/unknown, followed by the records of the
\* local collection, in their order and each tagged local/ready: as many
\* records as the two collections have together, none merged, and the tags
\* replace any source or state a stored record carries.
C9_KnownThenLocalTagged ==
    op = "getElectronVersions" /\ fault # "read" =>
        LET known == LoadOfKnown(pre)
            local == LoadOfLocal(pre, fault)
        IN  /\ err = NoError
            /\ Len(ret) = Len(known) + Len(local)
            /\ \A i \in 1..Len(known) :
                  IsTaggedCopy(ret[i], known[i], SourceRemote, StateUnknown)
            /\ \A i \in 1..Len(local) :
                  IsTaggedCopy(ret[Len(known) + i], local[i],
                               SourceLocal, StateReady)

\* C9 witness: the same version in both collections is returned twice, and a
\* known record stored with the tag local is returned tagged remote
C9_Witness ==
    /\ op = "getElectronVersions"
    /\ err = NoError
    /\ pre[KnownKey] = ListText(<<R1, LocalB>>)
    /\ pre[LocalKey] = ListText(<<A1>>)
    /\ Len(ret) = 3
    /\ ret[1].version = ret[3].version
    /\ ret[2].source = SourceRemote
    /\ ret[3].source = SourceLocal

----------------------------------------------------------------------------
(* C10 *)

\* some record of the list has the localPath of r
PathTaken(list, r) ==
    \E i \in DOMAIN list : Get(list[i], "localPath") = Get(r, "localPath")

\* no two records of the list have the same localPath
UniquePaths(list) ==
    \A i, j \in DOMAIN list :
        i # j => Get(list[i], "localPath") # Get(list[j], "localPath")

\* the last call was an addLocalVersion that the store served
Added == op = "addLocalVersion" /\ fault = "none"

\* C10 (as claimed): from an absent or empty local collection, after any
\* addLocalVersion calls no two persisted records share a localPath; an add
\* whose localPath is taken leaves the persisted list unchanged, and an add
\* with a new localPath appends the record at its end.
C10_DedupByPath ==
    /\ UniquePaths(Persisted(store, LocalKey))
    /\ Added =>
          LET before == Persisted(pre, LocalKey)
              after  == Persisted(store, LocalKey)
          IN  IF PathTaken(before, arg[1])
              THEN after = before
              ELSE after = Append(before, StringifyObject(arg[1]))

\* C10 (amended): from an absent or empty local collection, after any
\* addLocalVersion calls no two persisted records share a localPath.  While
\* every persisted record has a truthy version (as is the case when every
\* record added had one) and the record added has a truthy version: an add
\* whose localPath is taken leaves the persisted list unchanged; an add with a
\* new localPath appends the record at its end if the record carries no
\* provenance tag or the tag local, and leaves the list unchanged if it carries
\* another tag (remote).
C10_DedupByPathOfValidRecords ==
    /\ UniquePaths(Persisted(store, LocalKey))
    /\ Added
       /\ AllHaveVersion(Persisted(pre, LocalKey))
       /\ Truthy(Get(arg[1], "version"))
       => LET before == Persisted(pre, LocalKey)
              after  == Persisted(store, LocalKey)
          IN  /\ err = NoError
              /\ AllHaveVersion(after)
              /\ PathTaken(before, arg[1]) => after = before
              /\ ~PathTaken(before, arg[1]) /\ UntaggedOrLocal(arg[1])
                    => after = Append(before, StringifyObject(arg[1]))
              /\ ~PathTaken(before, arg[1]) /\ ~UntaggedOrLocal(arg[1])
                    => after = before

\* C10 witness: a second record with the localPath of the first, and another
\* version, was added and the first alone is retained
C10_Witness ==
    /\ Added
    /\ arg = <<A2>>
    /\ Persisted(pre, LocalKey) = <<A1>>
    /\ Persisted(store, LocalKey) = <<A1>>
    /\ ret = <<A1>>

-----------------------------------------------------------------------------
(* C11 *)

\* the registry answered with a versions mapping
Answered == arg.kind = "ok"

\* the fetch failed: no connection, no JSON in the body, or no versions in it
FetchFailed == arg.kind \in {"network", "badbody", "noversions"}

\* C11: with a working store, fetchVersions returns the list projected from
\* the keys of the answer; if that list is non-empty and every record of it has
\* a truthy version, the known slot holds exactly that list afterwards and a
\* following load of the known collection returns it; otherwise the store is
\* as it was
C11_FetchReplacesKnownIffValid ==
    (op = "fetchVersions" /\ fault = "none" /\ Answered) =>
        LET output == Projected(arg.keys)
        IN  /\ err = NoError
            /\ ret = output
            /\ IF output # <<>> /\ AllHaveVersion(output)
               THEN /\ store = [pre EXCEPT ![KnownKey] = ListText(output)]
                    /\ getKnownVersions(store, "none").val = output
               ELSE store = pre

\* a fetch of versions 2 and 3 replaced a known collection that held version 1
C11_Witness ==
    /\ op = "fetchVersions" /\ fault = "none"
    /\ arg = Body(<<V2, V3>>)
    /\ pre[KnownKey] = ListText(<<R1>>)
    /\ store[KnownKey] = ListText(<<R2, R3>>)
    /\ ret = <<R2, R3>>

-----------------------------------------------------------------------------
(* C12 *)

\* C12: a fetchVersions that failed raised and left the store as it was; with
\* a working store, the getUpdatedElectronVersions that awaited it completes
\* normally, leaves the known slot as it was, and returns what
\* getElectronVersions returns on the store as it was when the call went on
C12_FetchFailureIsSwallowed ==
    /\ (op = "fetchVersions" /\ FetchFailed) =>
            err # NoError /\ store = pre
    /\ (op = "getUpdatedElectronVersions" /\ fault = "none" /\ FetchFailed) =>
            /\ err = NoError
            /\ store[KnownKey] = pre[KnownKey]
            /\ ret = getElectronVersions(pre, "none").val

\* the network request failed and the refresh returned the persisted versions
C12_Witness ==
    /\ op = "getUpdatedElectronVersions" /\ fault = "none"
    /\ arg = NetworkFailure
    /\ err = NoError
    /\ pre[KnownKey] = ListText(<<R1>>)
    /\ Len(ret) > 0

-----------------------------------------------------------------------------
(* C13 *)

\* the marker occurs in the tag, character by character
Contains(tag, marker) ==
    \E k \in 1..Len(tag) :
        \A j \in 1..Len(marker) :
            k + j - 1 <= Len(tag) /\ tag[k + j - 1] = marker[j]

\* the version tag of the record classified, empty when it has none
ClassifiedTag ==
    IF "version" \in DOMAIN arg[1] /\ Truthy(arg[1].version)
    THEN arg[1].version ELSE Empty

\* C13: getReleaseChannel gives Beta for a tag containing "beta"; otherwise
\* Nightly for one containing "nightly"; otherwise Unsupported for one
\* containing "unsupported"; otherwise Stable, also for a missing or empty tag
C13_ChannelByPriority ==
    op = "getReleaseChannel" =>
        ret = IF Contains(ClassifiedTag, MarkBeta) THEN ChannelBeta
              ELSE IF Contains(ClassifiedTag, MarkNightly) THEN ChannelNightly
              ELSE IF Contains(ClassifiedTag, MarkUnsupported)
                   THEN ChannelUnsupported
              ELSE ChannelStable

\* a tag with "nightly" before "beta" is classified Beta
C13_Witness ==
    /\ op = "getReleaseChannel"
    /\ arg[1] = [version |-> V1 \o MarkNightly \o MarkBeta]
    /\ ret = ChannelBeta

-----------------------------------------------------------------------------
(* C14 *)

\* the entry has a non-empty tag_name, name and url
HasAllThree(e) ==
    /\ ~IsNull(e)
    /\ \A f \in {"tag_name", "name", "url"} : f \in DOMAIN e /\ Truthy(e[f])

\* the positions of the entries that have all three
Migratable(input) == {i \in DOMAIN input : HasAllThree(input[i])}

\* the k-th of these positions
NthMigratable(input, k) ==
    CHOOSE i \in Migratable(input) :
        Cardinality({j \in Migratable(input) : j <= i}) = k

\* C14: migrateVersions returns, in input order, one record
\* {version: tag_name, name, localPath: url} for each entry whose tag_name,
\* name and url are all there and non-empty, and nothing for any other entry;
\* the list returned passes the Format Validator
C14_MigrateKeepsCompleteEntries ==
    op = "migrateVersions" =>
        LET input == arg[1]
        IN  /\ Len(ret) = Cardinality(Migratable(input))
            /\ \A k \in DOMAIN ret :
                 LET e == input[NthMigratable(input, k)]
                 IN  ret[k] = [version |-> e.tag_name, name |-> e.name,
                               localPath |-> e.url]
            /\ isExpectedFormat(ListText(ret)) = "true"

\* two complete entries are migrated in order and the entry between them,
\* whose name is empty, is dropped
C14_Witness ==
    /\ op = "migrateVersions"
    /\ arg[1] = <<Legacy2, LegacyNoName, Legacy1>>
    /\ ret = <<[version |-> V2, name |-> NameA, localPath |-> PathB],
               [version |-> V1, name |-> NameA, localPath |-> PathA]>>

-----------------------------------------------------------------------------
(* C15 *)

\* the record carries a provenance tag or a lifecycle state
CarriesTag(r) == ~IsNull(r) /\ DOMAIN r \cap {"source", "state"} # {}

\* some record stored under the key carries one
StoresTag(st, key) ==
    \E i \in DOMAIN Persisted(st, key) : CarriesTag(Persisted(st, key)[i])

\* the records of the list that are tagged local, tags included
LocalTagged(list) ==
    LET IsLocal(v) == Get(v, "source") = SourceLocal
    IN  SelectSeq(list, IsLocal)

\* C15 (as claimed): no record stored under the local or the known key
\* carries a source or a state field
C15_NoTagIsPersisted ==
    ~StoresTag(store, LocalKey) /\ ~StoresTag(store, KnownKey)

\* C15 (amended): no record stored under the known key carries a source or a
\* state; a record stored under the local key that carries one carries both,
\* local and ready; and saveLocalVersions called with a list returned by
\* getElectronVersions stores the records of it that are tagged local with
\* their tags
C15_OnlyLocalTagIsPersisted ==
    /\ ~StoresTag(store, KnownKey)
    /\ \A i \in DOMAIN Persisted(store, LocalKey) :
         LET r == Persisted(store, LocalKey)[i]
         IN  CarriesTag(r) =>
                /\ Get(r, "source") = SourceLocal
                /\ Get(r, "state") = StateReady
    /\ (op = "saveLocalVersions" /\ \E i \in DOMAIN arg : CarriesTag(arg[i]))
            => store[LocalKey] = ListText(LocalTagged(arg))

\* the list getElectronVersions returned was saved as the local collection
\* and the record stored carries its tags
C15_Witness ==
    /\ op = "saveLocalVersions"
    /\ arg = <<Tagged(R1, SourceRemote, StateUnknown),
               Tagged(A1, SourceLocal, StateReady)>>
    /\ store[LocalKey] = ListText(<<Tagged(A1, SourceLocal, StateReady)>>)

-----------------------------------------------------------------------------
(* C16 *)

\* every record of the first list is in the second
AllStillIn(before, after) ==
    \A i \in DOMAIN before : \E j \in DOMAIN after : after[j] = before[i]

\* the first list is the beginning of the second
StartsWith(after, before) ==
    /\ Len(before) <= Len(after)
    /\ SubSeq(after, 1, Len(before)) = before

\* this step is not the addition of a record without a truthy version
NoVersionlessAdd ==
    op' = "addLocalVersion" => Truthy(Get(arg'[1], "version"))

\* C16 (as claimed): across addLocalVersion, getLocalVersions,
\* getElectronVersions and fetchVersions, every record of the persisted local
\* collection is still in it after the next call
C16_AppendOnly ==
    [][AllStillIn(Persisted(store, LocalKey), Persisted(store', LocalKey))]_vars

\* C16 (amended): when every record of the persisted local collection has a
\* truthy version and the call is not the addition of a record without one,
\* the collection after the call begins with the collection before it, and
\* every record of it has a truthy version again
C16_AppendOnlyWithVersions ==
    [][(AllHaveVersion(Persisted(store, LocalKey)) /\ NoVersionlessAdd)
          => /\ StartsWith(Persisted(store', LocalKey),
                           Persisted(store, LocalKey))
             /\ AllHaveVersion(Persisted(store', LocalKey))]_vars

\* a record was added behind the one the collection held
C16_Witness ==
    /\ op = "addLocalVersion" /\ fault = "none"
    /\ arg[1] = B1
    /\ pre[LocalKey] = ListText(<<A1>>)
    /\ store[LocalKey] = ListText(<<A1, B1>>)

-----------------------------------------------------------------------------
(* C17 *)

\* the records of a list as JSON keeps them
AsStored(list) == JSONstringify(list).items

\* a load of the local collection right now returns this list
LoadsAs(list) == getLocalVersions(store, "none").val = AsStored(list)

\* C17 (as claimed): for every record, a load of the local collection right
\* after addLocalVersion returns the list addLocalVersion returned
C17_ReturnedIsPersisted ==
    (Added /\ err = NoError) => LoadsAs(ret)

\* C17 (amended): for a record with a truthy version that is not tagged
\* remote, the local slot holds the list addLocalVersion returned and a load
\* right afterwards returns it
C17_ReturnedIsPersistedForLocalRecords ==
    (/\ Added /\ err = NoError
     /\ Truthy(Get(arg[1], "version"))
     /\ UntaggedOrLocal(arg[1]))
        => /\ store[LocalKey] = JSONstringify(ret)
           /\ LoadsAs(ret)

\* a record tagged local was added to an absent collection and is what the
\* slot holds
C17_Witness ==
    /\ Added /\ err = NoError
    /\ arg[1] = LocalB
    /\ pre[LocalKey] = AbsentText
    /\ ret = <<LocalB>>
    /\ store[LocalKey] = ListText(<<LocalB>>)

-----------------------------------------------------------------------------
(* C18 *)

\* a getUpdatedElectronVersions has just completed
RefreshDone == op = "getUpdatedElectronVersions" /\ err = NoError

\* the record is in the persisted local collection and, tagged local, in the
\* list the refresh returned
Survived(r) ==
    /\ \E i \in DOMAIN Persisted(store, LocalKey) :
          Persisted(store, LocalKey)[i] = StringifyObject(r)
    /\ \E j \in DOMAIN ret :
          ret[j] = Tagged(StringifyObject(r), SourceLocal, StateReady)

\* once no call is suspended, the known slot holds the list of the fetch that
\* wrote last
KnownIsLastFetched ==
    (Suspended = 0 /\ hist.fetched.wrote)
        => store[KnownKey] = ListText(hist.fetched.list)

\* C18 (as claimed): when a refresh completes, every record added while a
\* refresh was suspended is in the persisted local collection and in the list
\* the refresh returns; after all refreshes the known collection is the list
\* of the fetch that wrote last
C18_AddsSurviveRefresh ==
    /\ RefreshDone => \A r \in hist.added : Survived(r)
    /\ KnownIsLastFetched

\* C18 (amended): the same, for the records not tagged remote, when every
\* record added while a refresh was suspended has a truthy version
C18_VersionedAddsSurviveRefresh ==
    /\ (RefreshDone /\ \A r \in hist.added : Truthy(Get(r, "version")))
          => \A r \in hist.added : UntaggedOrLocal(r) => Survived(r)
    /\ KnownIsLastFetched

\* a record was added while the refresh was suspended; the refresh wrote
\* versions 2 and 3 as the known collection and the record is still there
C18_Witness ==
    /\ RefreshDone /\ Suspended = 0
    /\ arg = Body(<<V2, V3>>)
    /\ hist.added = {B1}
    /\ Survived(B1)
    /\ store[KnownKey] = ListText(<<R2, R3>>)

-----------------------------------------------------------------------------
(* C19 *)

\* C19: whatever the slots hold, a list that getKnownVersions or
\* getLocalVersions returns has a truthy version in every record
C19_LoadedListsAreValid ==
    (IsLoad /\ err = NoError) =>
        /\ AllHaveVersion(ret)
        /\ isExpectedFormat(ListText(ret)) = "true"

\* the known slot held a list with a null entry and the load returned the
\* bundled snapshot
C19_Witness ==
    /\ op = "getKnownVersions" /\ err = NoError
    /\ pre[KnownKey] = ListText(<<R1, NullEntry>>)
    /\ ret = Snapshot

====
